---- MODULE Spec2Model ----
(***************************************************************************)
(* Model of the config3 synchronisation engine of AvConfig-Research:       *)
(* FileHander (file_watcher callback + file_saver task) and                *)
(* ConfigurationFile (deserializer_thread + serializer_thread), connected  *)
(* by two tokio watch channels and the two process-wide AtomicBool flags   *)
(* HAS_WRITTEN and HAS_DESERIALIZED.                                       *)
(*                                                                         *)
(* Every atomic load, store, channel operation and file operation of the   *)
(* four activities is one step, so that all interleavings of the tasks on  *)
(* tokio's multi-threaded runtime and of notify's callback thread arise.   *)
(* A watch::Receiver's (version != seen version) test is kept as one       *)
(* boolean per receiver (saverChanged, deserChanged, serChanged).          *)
(* A watch::Ref returned by borrow() holds the channel's read lock until   *)
(* it is dropped; a sender blocks while a Ref is alive.                    *)
(*                                                                         *)
(* The file exists and is readable UTF-8 for the whole run, so             *)
(* read_to_string succeeds (its Err branch drops the event).               *)
(***************************************************************************)
EXTENDS Integers, Sequences, FiniteSets, TLC

\* ---------------------------------------------------------------- bounds
\* largest count the one shopping-list item can reach
MaxVal == 2
\* external edits allowed while the engine is still busy
MaxExt == 1
\* application mutations allowed while the engine is still busy
MaxMut == 2

\* while edits and mutations still arrive, file_saver is next scheduled only
\* when fewer than MaxEvents Close(Write) events wait for the callback
MaxEvents == 1

\* ------------------------------------------------- the document type T
\* ShoppingList reduced to the count of one item; T::default() is 0.
Values == 0..MaxVal

DefaultT == 0

\* File contents.  "canon" is the text serde_json::to_string produces for a
\* value, "alt" is another JSON text of the same value (other whitespace or
\* key order), "bad" is text that is not JSON ("not json").
Texts ==
    [k : {"canon", "alt"}, v : Values] \cup {[k |-> "bad", v |-> 0]}

\* serde_json::from_str::<T>: Ok(value) or Err(message)
from_str(t) ==
    IF t.k = "bad"
    THEN [ok |-> FALSE, v |-> DefaultT, err |-> "expected value at line 1 column 1"]
    ELSE [ok |-> TRUE, v |-> t.v, err |-> ""]

\* serde_json::to_string: always the canonical text of the value
to_string(v) == [k |-> "canon", v |-> v]

\* ----------------------------------------------------- ConfigResult<T>
Valid(v) == [tag |-> "Valid", v |-> v, err |-> ""]

Invalid(v, e) == [tag |-> "Invalid", v |-> v, err |-> e]

\* a with_error that forgets to move the taken value back
with_error_Default(self, errors) == Invalid(DefaultT, errors)

\* ConfigResult::with_error: mem::take the payload and re-wrap it as Invalid
with_error(self, errors) == Invalid(self.v, errors)

\* ConfigResult::get: the T payload of either variant
get(self) == self.v

\* the closure of main: *items.entry(line).or_insert(0) += 1 through get_mut;
\* the variant and its error annotation are left as they are
get_mut_increment(self) == [self EXCEPT !.v = @ + 1]

\* initial_value of ConfigurationFile::new
initial_value(t) ==
    IF from_str(t).ok THEN Valid(from_str(t).v)
    ELSE Invalid(DefaultT, from_str(t).err)

VARIABLES
    disk,              \* content of the file
    events,            \* undelivered Close(Write) events; each names its writer
    raw,               \* value of the watch::channel<String>
    saverChanged,      \* file_saver's rx has an unseen version
    deserChanged,      \* deserializer's raw_rx has an unseen version
    cfg,               \* value of the watch::channel<ConfigResult<T>>
    serChanged,        \* serializer's config_rx has an unseen version
    HAS_WRITTEN,
    HAS_DESERIALIZED,
    wpc, wTag, wContents,   \* file_watcher callback
    spc, sContents,         \* file_saver task
    dpc, dParsed,           \* deserializer task
    zpc, zConfig,           \* serializer task
    nExt, nMut,        \* external edits / mutations made while busy
    phase,             \* "free", the single change under observation, or
                       \* which of the two stop methods have been called
    probeText,         \* text of the single external edit
    probePre,          \* typed result when the single change was made
    probeWrites,       \* disk writes by the engine since the single change
    probeSteps,        \* engine steps since the single change
    noop,              \* a send_if_modified found the offered text equal
    storesAhead        \* HAS_WRITTEN.store(true) executed minus events ignored

vars ==
    <<disk, events, raw, saverChanged, deserChanged, cfg, serChanged,
      HAS_WRITTEN, HAS_DESERIALIZED, wpc, wTag, wContents, spc, sContents,
      dpc, dParsed, zpc, zConfig, nExt, nMut, phase, probeText, probePre,
      probeWrites, probeSteps, noop, storesAhead>>

envVars == <<nExt, nMut, phase, probeText, probePre>>

NoText == [k |-> "none", v |-> 0]

NoParse == [ok |-> FALSE, v |-> 0, err |-> "none"]

\* FileHander::new and ConfigurationFile::new have run on a file holding any
\* text: both channels are seeded from it, config_rx is marked changed, the
\* statics have their initialisers.
\* a flag that starts clear
HAS_DESERIALIZED_new_Clear == FALSE

\* pub(super) static HAS_DESERIALIZED: AtomicBool = AtomicBool::new(true)
HAS_DESERIALIZED_new == TRUE

Init ==
    /\ disk \in Texts
    /\ events = <<>>
    /\ raw = disk
    /\ saverChanged = FALSE
    /\ deserChanged = FALSE
    /\ cfg = initial_value(disk)
    /\ serChanged = TRUE
    /\ HAS_WRITTEN = FALSE
    /\ HAS_DESERIALIZED = HAS_DESERIALIZED_new
    /\ wpc = "idle" /\ wTag = "none" /\ wContents = NoText
    /\ spc = "wait" /\ sContents = NoText
    /\ dpc = "wait" /\ dParsed = NoParse
    /\ zpc = "wait" /\ zConfig = NoText
    /\ nExt = 0 /\ nMut = 0
    /\ phase = "free"
    /\ probeText = NoText
    /\ probePre = cfg
    /\ probeWrites = 0
    /\ probeSteps = 0
    /\ noop = FALSE
    /\ storesAhead = 0

\* ------------------------------------------------------------- helpers
\* a live watch::Ref on the raw-text channel: file_saver holds `contents`
\* from its borrow() to the end of the iteration, the deserializer likewise
RawBorrowed ==
    \/ spc \in {"loadW", "loadD", "store", "write"}
    \/ dpc \in {"store", "send"}

\* nothing is pending anywhere: every task is parked in changed().await, the
\* callback is not running and no event is undelivered
Quiescent ==
    /\ events = <<>>
    /\ wpc = "idle" /\ spc = "wait" /\ dpc = "wait" /\ zpc = "wait"
    /\ ~saverChanged /\ ~deserChanged /\ ~serChanged

\* a single change made to a quiescent engine is under observation
Probing == phase \in {"ext", "app"}

\* the file is still watched: FileHander::stop has not called unwatch
Watched == phase \notin {"stopF", "stopped"}

\* storesAhead is exact below this cap; at the cap it stands for "at least"
AheadCap == 2

\* cap of the write counter kept while a single change is observed
WriteCap == 3

\* cap of the step counter kept while a single change is observed
StepCap == 40

\* one engine step is counted while a single change is under observation
Tick ==
    probeSteps' =
        IF ~Probing THEN 0
        ELSE IF probeSteps < StepCap THEN probeSteps + 1 ELSE StepCap

\* ------------------------------------------------ FileHander::file_watcher
\* a closure that reports every offered text as a modification
watcher_modified_Always(s, contents) == TRUE

\* send_if_modified closure of the watcher: modified = (s != &contents)
watcher_modified(s, contents) == s # contents

\* the callback is entered with a Close(Write) event and loads HAS_WRITTEN
WatcherEvent ==
    /\ Watched
    /\ wpc = "idle"
    /\ events # <<>>
    /\ wTag' = Head(events)
    /\ events' = Tail(events)
    /\ wpc' = IF HAS_WRITTEN THEN "clear" ELSE "read"
    /\ Tick
    /\ UNCHANGED <<disk, raw, saverChanged, deserChanged, cfg, serChanged,
                   HAS_WRITTEN, HAS_DESERIALIZED, wContents, spc, sContents,
                   dpc, dParsed, zpc, zConfig, probeWrites, noop>>
    /\ storesAhead' =
           IF HAS_WRITTEN /\ storesAhead < AheadCap /\ storesAhead >= 0
           THEN storesAhead - 1 ELSE storesAhead
    /\ UNCHANGED envVars

\* HAS_WRITTEN.store(false); return
WatcherClear ==
    /\ wpc = "clear"
    /\ HAS_WRITTEN' = FALSE
    /\ wpc' = "idle"
    /\ wTag' = "none"
    /\ Tick
    /\ UNCHANGED <<disk, events, raw, saverChanged, deserChanged, cfg,
                   serChanged, HAS_DESERIALIZED, wContents, spc, sContents,
                   dpc, dParsed, zpc, zConfig, probeWrites, noop>>
    /\ UNCHANGED <<envVars, storesAhead>>

\* std::fs::read_to_string(&path_inner)
WatcherRead ==
    /\ wpc = "read"
    /\ wContents' = disk
    /\ wpc' = "send"
    /\ Tick
    /\ UNCHANGED <<disk, events, raw, saverChanged, deserChanged, cfg,
                   serChanged, HAS_WRITTEN, HAS_DESERIALIZED, wTag, spc,
                   sContents, dpc, dParsed, zpc, zConfig, probeWrites, noop>>
    /\ UNCHANGED <<envVars, storesAhead>>

\* tx.send_if_modified(..): under the write lock; receivers are notified
\* only when the closure returns true
WatcherSend ==
    /\ wpc = "send"
    /\ ~RawBorrowed
    /\ IF watcher_modified(raw, wContents)
       THEN /\ raw' = wContents
            /\ saverChanged' = TRUE
            /\ deserChanged' = TRUE
            /\ noop' = noop
       ELSE /\ UNCHANGED <<raw, saverChanged, deserChanged>>
            /\ noop' = TRUE
    /\ wpc' = "idle"
    /\ wTag' = "none"
    /\ wContents' = NoText
    /\ Tick
    /\ UNCHANGED <<disk, events, cfg, serChanged, HAS_WRITTEN,
                   HAS_DESERIALIZED, spc, sContents, dpc, dParsed, zpc,
                   zConfig, probeWrites>>
    /\ UNCHANGED <<envVars, storesAhead>>

\* -------------------------------------------------- FileHander::file_saver
\* a wait that returns on an unseen version without marking it seen
SaverChanged_Unmarked ==
    /\ spc = "wait"
    /\ saverChanged
    /\ ~Probing => Len(events) < MaxEvents
    /\ spc' = "borrow"
    /\ Tick
    /\ UNCHANGED <<disk, events, raw, saverChanged, deserChanged, cfg,
                   serChanged, HAS_WRITTEN, HAS_DESERIALIZED, wpc, wTag,
                   wContents, sContents, dpc, dParsed, zpc, zConfig,
                   probeWrites, noop>>
    /\ UNCHANGED <<envVars, storesAhead>>

\* rx.changed().await returns and marks the version seen
SaverChanged ==
    /\ spc = "wait"
    /\ saverChanged
    /\ ~Probing => Len(events) < MaxEvents
    /\ saverChanged' = FALSE
    /\ spc' = "borrow"
    /\ Tick
    /\ UNCHANGED <<disk, events, raw, deserChanged, cfg, serChanged,
                   HAS_WRITTEN, HAS_DESERIALIZED, wpc, wTag, wContents,
                   sContents, dpc, dParsed, zpc, zConfig, probeWrites, noop>>
    /\ UNCHANGED <<envVars, storesAhead>>

\* let contents = rx.borrow()
SaverBorrow ==
    /\ spc = "borrow"
    /\ sContents' = raw
    /\ spc' = "loadW"
    /\ Tick
    /\ UNCHANGED <<disk, events, raw, saverChanged, deserChanged, cfg,
                   serChanged, HAS_WRITTEN, HAS_DESERIALIZED, wpc, wTag,
                   wContents, dpc, dParsed, zpc, zConfig, probeWrites, noop>>
    /\ UNCHANGED <<envVars, storesAhead>>

\* a test of HAS_DESERIALIZED alone: the HAS_WRITTEN operand is left out
SaverLoadWritten_Skipped ==
    /\ spc = "loadW"
    /\ spc' = "loadD"
    /\ Tick
    /\ UNCHANGED <<disk, events, raw, saverChanged, deserChanged, cfg,
                   serChanged, HAS_WRITTEN, HAS_DESERIALIZED, wpc, wTag,
                   wContents, sContents, dpc, dParsed, zpc, zConfig,
                   probeWrites, noop>>
    /\ UNCHANGED <<envVars, storesAhead>>

\* HAS_WRITTEN.load(..) && ..: false short-circuits to the write
SaverLoadWritten ==
    /\ spc = "loadW"
    /\ spc' = IF HAS_WRITTEN THEN "loadD" ELSE "store"
    /\ Tick
    /\ UNCHANGED <<disk, events, raw, saverChanged, deserChanged, cfg,
                   serChanged, HAS_WRITTEN, HAS_DESERIALIZED, wpc, wTag,
                   wContents, sContents, dpc, dParsed, zpc, zConfig,
                   probeWrites, noop>>
    /\ UNCHANGED <<envVars, storesAhead>>

\* .. && HAS_DESERIALIZED.load(..) { continue; }
SaverLoadDeserialized ==
    /\ spc = "loadD"
    /\ IF HAS_DESERIALIZED
       THEN spc' = "wait" /\ sContents' = NoText
       ELSE spc' = "store" /\ sContents' = sContents
    /\ Tick
    /\ UNCHANGED <<disk, events, raw, saverChanged, deserChanged, cfg,
                   serChanged, HAS_WRITTEN, HAS_DESERIALIZED, wpc, wTag,
                   wContents, dpc, dParsed, zpc, zConfig, probeWrites, noop>>
    /\ UNCHANGED <<envVars, storesAhead>>

\* HAS_WRITTEN.store(true)
SaverStore ==
    /\ spc = "store"
    /\ HAS_WRITTEN' = TRUE
    /\ spc' = "write"
    /\ Tick
    /\ UNCHANGED <<disk, events, raw, saverChanged, deserChanged, cfg,
                   serChanged, HAS_DESERIALIZED, wpc, wTag, wContents,
                   sContents, dpc, dParsed, zpc, zConfig, probeWrites, noop>>
    /\ storesAhead' =
           IF storesAhead < AheadCap THEN storesAhead + 1 ELSE AheadCap
    /\ UNCHANGED envVars

\* std::fs::write(&path, contents): the file is replaced and closed, which
\* queues one Close(Write) event; the Ref is dropped at the end of the body
SaverWrite ==
    /\ spc = "write"
    /\ disk' = sContents
    /\ events' = IF Watched THEN Append(events, "eng") ELSE events
    /\ spc' = "wait"
    /\ sContents' = NoText
    /\ probeWrites' =
           IF ~Probing THEN 0
           ELSE IF probeWrites < WriteCap THEN probeWrites + 1 ELSE WriteCap
    /\ Tick
    /\ UNCHANGED <<raw, saverChanged, deserChanged, cfg, serChanged,
                   HAS_WRITTEN, HAS_DESERIALIZED, wpc, wTag, wContents, dpc,
                   dParsed, zpc, zConfig, noop>>
    /\ UNCHANGED <<envVars, storesAhead>>

\* ------------------------------- ConfigurationFile::new deserializer_thread
\* raw_rx.changed().await returns and marks the version seen
DeserChanged ==
    /\ dpc = "wait"
    /\ deserChanged
    /\ deserChanged' = FALSE
    /\ dpc' = "parse"
    /\ Tick
    /\ UNCHANGED <<disk, events, raw, saverChanged, cfg, serChanged,
                   HAS_WRITTEN, HAS_DESERIALIZED, wpc, wTag, wContents, spc,
                   sContents, dParsed, zpc, zConfig, probeWrites, noop>>
    /\ UNCHANGED <<envVars, storesAhead>>

\* let contents = raw_rx.borrow(); let parsed = serde_json::from_str(&contents)
DeserParse ==
    /\ dpc = "parse"
    /\ dParsed' = from_str(raw)
    /\ dpc' = "store"
    /\ Tick
    /\ UNCHANGED <<disk, events, raw, saverChanged, deserChanged, cfg,
                   serChanged, HAS_WRITTEN, HAS_DESERIALIZED, wpc, wTag,
                   wContents, spc, sContents, zpc, zConfig, probeWrites, noop>>
    /\ UNCHANGED <<envVars, storesAhead>>

\* a store placed in the Ok arm only: the Err arm continues without it
DeserStore_OnlyOnOk ==
    /\ dpc = "store"
    /\ HAS_DESERIALIZED' = (dParsed.ok \/ HAS_DESERIALIZED)
    /\ dpc' = "send"
    /\ Tick
    /\ UNCHANGED <<disk, events, raw, saverChanged, deserChanged, cfg,
                   serChanged, HAS_WRITTEN, wpc, wTag, wContents, spc,
                   sContents, dParsed, zpc, zConfig, probeWrites, noop>>
    /\ UNCHANGED <<envVars, storesAhead>>

\* HAS_DESERIALIZED.store(true)
DeserStore ==
    /\ dpc = "store"
    /\ HAS_DESERIALIZED' = TRUE
    /\ dpc' = "send"
    /\ Tick
    /\ UNCHANGED <<disk, events, raw, saverChanged, deserChanged, cfg,
                   serChanged, HAS_WRITTEN, wpc, wTag, wContents, spc,
                   sContents, dParsed, zpc, zConfig, probeWrites, noop>>
    /\ UNCHANGED <<envVars, storesAhead>>

\* a deserializer that on Ok only overwrites the payload in place
deser_result_KeepsError(current, parsed) ==
    IF parsed.ok THEN [current EXCEPT !.v = parsed.v]
    ELSE with_error(current, parsed.err)

\* the typed result the deserializer publishes: send_modify(with_error) on
\* Err, send_replace(config.into()) on Ok
deser_result(current, parsed) ==
    IF parsed.ok THEN Valid(parsed.v) ELSE with_error(current, parsed.err)

\* config_tx.send_modify / send_replace: both always notify; the Ref on the
\* raw text is dropped at the end of the iteration
DeserSend ==
    /\ dpc = "send"
    /\ cfg' = deser_result(cfg, dParsed)
    /\ serChanged' = TRUE
    /\ dpc' = "wait"
    /\ dParsed' = NoParse
    /\ Tick
    /\ UNCHANGED <<disk, events, raw, saverChanged, deserChanged,
                   HAS_WRITTEN, HAS_DESERIALIZED, wpc, wTag, wContents, spc,
                   sContents, zpc, zConfig, probeWrites, noop>>
    /\ UNCHANGED <<envVars, storesAhead>>

\* --------------------------------- ConfigurationFile::new serializer_thread
\* send_if_modified closure of the serializer: changed = (current != &config)
serializer_changed(current, config) == current # config

\* config_rx.changed().await returns and marks the version seen
SerChanged ==
    /\ zpc = "wait"
    /\ serChanged
    /\ serChanged' = FALSE
    /\ zpc' = "load"
    /\ Tick
    /\ UNCHANGED <<disk, events, raw, saverChanged, deserChanged, cfg,
                   HAS_WRITTEN, HAS_DESERIALIZED, wpc, wTag, wContents, spc,
                   sContents, dpc, dParsed, zConfig, probeWrites, noop>>
    /\ UNCHANGED <<envVars, storesAhead>>

\* a serializer without the HAS_DESERIALIZED test (as in config2)
SerLoad_Unsuppressed ==
    /\ zpc = "load"
    /\ zpc' = "serialize"
    /\ Tick
    /\ UNCHANGED <<disk, events, raw, saverChanged, deserChanged, cfg,
                   serChanged, HAS_WRITTEN, HAS_DESERIALIZED, wpc, wTag,
                   wContents, spc, sContents, dpc, dParsed, zConfig,
                   probeWrites, noop>>
    /\ UNCHANGED <<envVars, storesAhead>>

\* if HAS_DESERIALIZED.load(..)
SerLoad ==
    /\ zpc = "load"
    /\ zpc' = IF HAS_DESERIALIZED THEN "clear" ELSE "serialize"
    /\ Tick
    /\ UNCHANGED <<disk, events, raw, saverChanged, deserChanged, cfg,
                   serChanged, HAS_WRITTEN, HAS_DESERIALIZED, wpc, wTag,
                   wContents, spc, sContents, dpc, dParsed, zConfig,
                   probeWrites, noop>>
    /\ UNCHANGED <<envVars, storesAhead>>

\* a skip that continues without clearing the flag
SerClear_KeepsFlag ==
    /\ zpc = "clear"
    /\ zpc' = "wait"
    /\ Tick
    /\ UNCHANGED <<disk, events, raw, saverChanged, deserChanged, cfg,
                   serChanged, HAS_WRITTEN, HAS_DESERIALIZED, wpc, wTag,
                   wContents, spc, sContents, dpc, dParsed, zConfig,
                   probeWrites, noop>>
    /\ UNCHANGED <<envVars, storesAhead>>

\* HAS_DESERIALIZED.store(false); continue
SerClear ==
    /\ zpc = "clear"
    /\ HAS_DESERIALIZED' = FALSE
    /\ zpc' = "wait"
    /\ Tick
    /\ UNCHANGED <<disk, events, raw, saverChanged, deserChanged, cfg,
                   serChanged, HAS_WRITTEN, wpc, wTag, wContents, spc,
                   sContents, dpc, dParsed, zConfig, probeWrites, noop>>
    /\ UNCHANGED <<envVars, storesAhead>>

\* a serializer that writes the default payload for an Invalid result
SerSerialize_DropsInvalid ==
    /\ zpc = "serialize"
    /\ zConfig' = IF cfg.tag = "Valid" THEN to_string(get(cfg))
                  ELSE to_string(DefaultT)
    /\ zpc' = "send"
    /\ Tick
    /\ UNCHANGED <<disk, events, raw, saverChanged, deserChanged, cfg,
                   serChanged, HAS_WRITTEN, HAS_DESERIALIZED, wpc, wTag,
                   wContents, spc, sContents, dpc, dParsed, probeWrites, noop>>
    /\ UNCHANGED <<envVars, storesAhead>>

\* serde_json::to_string(config_rx.borrow().get()); the Ref is a temporary
SerSerialize ==
    /\ zpc = "serialize"
    /\ zConfig' = to_string(get(cfg))
    /\ zpc' = "send"
    /\ Tick
    /\ UNCHANGED <<disk, events, raw, saverChanged, deserChanged, cfg,
                   serChanged, HAS_WRITTEN, HAS_DESERIALIZED, wpc, wTag,
                   wContents, spc, sContents, dpc, dParsed, probeWrites, noop>>
    /\ UNCHANGED <<envVars, storesAhead>>

\* raw_tx.send_if_modified(..)
SerSend ==
    /\ zpc = "send"
    /\ ~RawBorrowed
    /\ IF serializer_changed(raw, zConfig)
       THEN /\ raw' = zConfig
            /\ saverChanged' = TRUE
            /\ deserChanged' = TRUE
            /\ noop' = noop
       ELSE /\ UNCHANGED <<raw, saverChanged, deserChanged>>
            /\ noop' = TRUE
    /\ zpc' = "wait"
    /\ zConfig' = NoText
    /\ Tick
    /\ UNCHANGED <<disk, events, cfg, serChanged, HAS_WRITTEN,
                   HAS_DESERIALIZED, wpc, wTag, wContents, spc, sContents,
                   dpc, dParsed, probeWrites>>
    /\ UNCHANGED <<envVars, storesAhead>>

\* ------------------------------------------------------------ environment
engineVars ==
    <<raw, saverChanged, deserChanged, HAS_WRITTEN, HAS_DESERIALIZED, wpc,
      wTag, wContents, spc, sContents, dpc, dParsed, zpc, zConfig, noop,
      storesAhead>>

\* another process replaces the file's content and closes it
ExternalEdit ==
    /\ ~Probing
    /\ nExt < MaxExt
    /\ Len(events) < MaxEvents
    /\ \E t \in Texts : disk' = t
    /\ events' = IF Watched THEN Append(events, "ext") ELSE events
    /\ nExt' = nExt + 1
    /\ UNCHANGED <<cfg, serChanged, nMut, phase, probeText, probePre,
                   probeWrites, probeSteps>>
    /\ UNCHANGED engineVars

\* main: tx.send_modify(|res| .. += 1), which always notifies
Mutate ==
    /\ ~Probing
    /\ nMut < MaxMut
    /\ get(cfg) < MaxVal
    /\ cfg' = get_mut_increment(cfg)
    /\ serChanged' = TRUE
    /\ nMut' = nMut + 1
    /\ UNCHANGED <<disk, events, nExt, phase, probeText, probePre,
                   probeWrites, probeSteps>>
    /\ UNCHANGED engineVars

\* the one external edit made to a quiescent engine and then observed: no
\* further edit or mutation follows it
SingleExternalEdit ==
    /\ phase = "free"
    /\ Quiescent
    /\ \E t \in Texts : disk' = t /\ probeText' = t
    /\ events' = Append(events, "ext")
    /\ phase' = "ext"
    /\ probePre' = cfg
    /\ probeWrites' = 0
    /\ probeSteps' = 0
    /\ UNCHANGED <<cfg, serChanged, nExt, nMut>>
    /\ UNCHANGED engineVars

\* the one application mutation made to a quiescent engine and then observed
SingleMutate ==
    /\ phase = "free"
    /\ Quiescent
    /\ get(cfg) < MaxVal
    /\ cfg' = get_mut_increment(cfg)
    /\ serChanged' = TRUE
    /\ phase' = "app"
    /\ probePre' = cfg
    /\ probeWrites' = 0
    /\ probeSteps' = 0
    /\ UNCHANGED <<disk, events, nExt, nMut, probeText>>
    /\ UNCHANGED engineVars

\* ------------------------------------------------------------------- stop
\* JoinHandle::abort on a task: one that is inside an iteration runs on to
\* its next changed().await; one that is at changed().await is either parked
\* there, and is dropped, or is about to poll it, and is still running
aborted(pc) == IF pc = "wait" THEN {"wait", "dead"} ELSE {pc}

\* ConfigurationFile::stop
StopConfig ==
    /\ phase \in {"free", "stopF"}
    /\ phase' = IF phase = "free" THEN "stopC" ELSE "stopped"
    /\ dpc' \in aborted(dpc)
    /\ zpc' \in aborted(zpc)
    /\ UNCHANGED <<disk, events, raw, saverChanged, deserChanged, cfg,
                   serChanged, HAS_WRITTEN, HAS_DESERIALIZED, wpc, wTag,
                   wContents, spc, sContents, dParsed, zConfig, nExt, nMut,
                   probeText, probePre, probeWrites, probeSteps, noop,
                   storesAhead>>

\* FileHander::stop: the saver is aborted and the watch removed; events not
\* yet handed to the callback are discarded with the watch, a callback that
\* is running runs to its end
StopFile ==
    /\ phase \in {"free", "stopC"}
    /\ phase' = IF phase = "free" THEN "stopF" ELSE "stopped"
    /\ spc' \in aborted(spc)
    /\ events' = <<>>
    /\ UNCHANGED <<disk, raw, saverChanged, deserChanged, cfg, serChanged,
                   HAS_WRITTEN, HAS_DESERIALIZED, wpc, wTag, wContents,
                   sContents, dpc, dParsed, zpc, zConfig, nExt, nMut,
                   probeText, probePre, probeWrites, probeSteps, noop,
                   storesAhead>>

\* an aborted file_saver polls rx.changed(), finds nothing unseen, yields
\* and is dropped
SaverPark ==
    /\ phase \in {"stopF", "stopped"}
    /\ spc = "wait"
    /\ ~saverChanged
    /\ spc' = "dead"
    /\ UNCHANGED <<disk, events, raw, saverChanged, deserChanged, cfg,
                   serChanged, HAS_WRITTEN, HAS_DESERIALIZED, wpc, wTag,
                   wContents, sContents, dpc, dParsed, zpc, zConfig,
                   probeWrites, probeSteps, noop>>
    /\ UNCHANGED <<envVars, storesAhead>>

\* the same for an aborted deserializer
DeserPark ==
    /\ phase \in {"stopC", "stopped"}
    /\ dpc = "wait"
    /\ ~deserChanged
    /\ dpc' = "dead"
    /\ UNCHANGED <<disk, events, raw, saverChanged, deserChanged, cfg,
                   serChanged, HAS_WRITTEN, HAS_DESERIALIZED, wpc, wTag,
                   wContents, spc, sContents, dParsed, zpc, zConfig,
                   probeWrites, probeSteps, noop>>
    /\ UNCHANGED <<envVars, storesAhead>>

\* the same for an aborted serializer
SerPark ==
    /\ phase \in {"stopC", "stopped"}
    /\ zpc = "wait"
    /\ ~serChanged
    /\ zpc' = "dead"
    /\ UNCHANGED <<disk, events, raw, saverChanged, deserChanged, cfg,
                   serChanged, HAS_WRITTEN, HAS_DESERIALIZED, wpc, wTag,
                   wContents, spc, sContents, dpc, dParsed, zConfig,
                   probeWrites, probeSteps, noop>>
    /\ UNCHANGED <<envVars, storesAhead>>

\* ---------------------------------------------------------- specification
Watcher == WatcherEvent \/ WatcherClear \/ WatcherRead \/ WatcherSend

Saver ==
    \/ SaverChanged \/ SaverBorrow \/ SaverLoadWritten
    \/ SaverLoadDeserialized \/ SaverStore \/ SaverWrite

Deserializer == DeserChanged \/ DeserParse \/ DeserStore \/ DeserSend

Serializer == SerChanged \/ SerLoad \/ SerClear \/ SerSerialize \/ SerSend

Engine == Watcher \/ Saver \/ Deserializer \/ Serializer

Next ==
    \/ Engine
    \/ ExternalEdit
    \/ Mutate
    \/ SingleExternalEdit
    \/ SingleMutate

Spec == Init /\ [][Next]_vars

\* every activity runs on its own thread or on the multi-threaded runtime:
\* a step that stays possible is eventually taken
FairSpec ==
    /\ Spec
    /\ WF_vars(Watcher)
    /\ WF_vars(Saver)
    /\ WF_vars(Deserializer)
    /\ WF_vars(Serializer)

\* edits and mutations made around the stop calls, before or after them
MaxStopChanges == 2

StopExternalEdit == nExt + nMut < MaxStopChanges /\ ExternalEdit

StopMutate == nExt + nMut < MaxStopChanges /\ Mutate

\* the engine under a client that, unlike main, calls the stop methods
StopNext ==
    \/ Engine
    \/ StopExternalEdit
    \/ StopMutate
    \/ StopConfig
    \/ StopFile
    \/ SaverPark
    \/ DeserPark
    \/ SerPark

StopSpec == Init /\ [][StopNext]_vars

\* ================================================================ claims
\* the single change has run its course within the step budget: the engine
\* is at rest, or some activity can still take a step
Settles == probeSteps < StepCap /\ (Quiescent \/ ENABLED Engine)

\* the typed result the single external edit must lead to
Expected ==
    IF from_str(probeText).ok THEN Valid(from_str(probeText).v)
    ELSE Invalid(get(probePre), from_str(probeText).err)

\* C1: after a single external edit of a quiescent engine to text X, once
\* the engine is quiescent again the typed result is the parse of X.
C1_ExternalEditConverges ==
    (phase = "ext" /\ Quiescent) => cfg = Expected

\* C2: after a single external edit of a quiescent engine the engine itself
\* performs no disk write.
C2_NoWriteBack == phase = "ext" => probeWrites = 0

\* C3: after a single application mutation of a quiescent engine to value V
\* the engine settles, and at rest the file holds the serialization of V.
C3_MutationReachesDisk ==
    phase = "app" =>
        /\ Settles
        /\ Quiescent =>
              /\ get(cfg) = get(probePre) + 1
              /\ disk = to_string(get(cfg))

C3_Witness ==
    /\ phase = "app" /\ Quiescent /\ probeWrites = 1
    /\ get(cfg) = get(probePre) + 1
    /\ disk = to_string(get(cfg))

\* C4: the callback run for the Close(Write) event of a file_saver write
\* never changes the raw-text channel.
C4_EchoNotRepublished ==
    [][(wpc = "send" /\ wpc' = "idle" /\ wTag = "eng") => raw' = raw]_vars

\* C5: after a single external edit or a single application mutation of a
\* quiescent engine, the engine takes fewer than StepCap steps and then is
\* at rest with nothing pending.
C5_RingTerminates == phase # "free" => Settles

C5_Witness ==
    /\ phase # "free" /\ Quiescent /\ probeSteps > 8 /\ probeWrites > 0

\* C6: when the deserializer publishes for a text that failed to parse, the
\* typed result becomes Invalid with the payload it held and a non-empty
\* message.
C6_ErrorPreservesValue ==
    [][(dpc = "send" /\ dpc' = "wait" /\ ~dParsed.ok) =>
          /\ cfg'.tag = "Invalid"
          /\ cfg'.v = cfg.v
          /\ cfg'.err # ""]_vars

C6_Witness ==
    /\ phase = "ext" /\ Quiescent /\ ~from_str(probeText).ok
    /\ probePre.tag = "Valid" /\ probePre.v # DefaultT
    /\ cfg = Invalid(probePre.v, from_str(probeText).err)

C8_BurstConverges ==
    (Quiescent /\ phase = "free" /\ nExt = 0 /\ nMut > 0) =>
        disk = to_string(get(cfg))

\* C9: a step that leaves the raw text as it is notifies neither file_saver
\* nor the deserializer.
C9_NoOpStability ==
    [][raw' = raw =>
          /\ saverChanged' => saverChanged
          /\ deserChanged' => deserChanged]_vars

C9_Witness == noop /\ Quiescent

\* C10: after a single external edit of a quiescent engine whose typed
\* result is Invalid to a text X that parses, the engine settles and at rest
\* the typed result is Valid(parse(X)), without an error.
C10_ErrorCleared ==
    (phase = "ext" /\ probePre.tag = "Invalid" /\ from_str(probeText).ok) =>
        /\ Settles
        /\ Quiescent => cfg = Valid(from_str(probeText).v)

C10_Witness ==
    /\ phase = "ext" /\ Quiescent /\ probePre.tag = "Invalid"
    /\ from_str(probeText).ok
    /\ cfg.tag = "Valid" /\ cfg.err = "" /\ get(cfg) = from_str(probeText).v

\* C12: in every file_saver iteration the write is skipped exactly when
\* HAS_DESERIALIZED is set, a skip clears HAS_DESERIALIZED, and otherwise
\* HAS_WRITTEN is set and then the borrowed text is written to the file.
C12_SaverStepRule ==
    [][/\ (spc \in {"loadW", "loadD"} /\ spc' = "store") =>
              ~HAS_DESERIALIZED
       /\ (spc \in {"loadW", "loadD"} /\ spc' = "wait") =>
              (HAS_DESERIALIZED /\ ~HAS_DESERIALIZED')
       /\ (spc = "store" /\ spc' = "write") => HAS_WRITTEN'
       /\ (spc = "write" /\ spc' = "wait") => disk' = sContents]_vars

\* C13: the deserializer reaches its publish only through the step that
\* stores HAS_DESERIALIZED = true, whether the parse succeeded or failed,
\* and only that publish changes the typed result on its behalf.
C13_DeserArmsBeforePublish ==
    [][/\ (dpc # "send" /\ dpc' = "send") =>
              (dpc = "store" /\ HAS_DESERIALIZED' /\ dParsed' = dParsed)
       /\ (dpc # dpc' /\ cfg' # cfg) => (dpc = "send" /\ dpc' = "wait")]_vars

C13_Witness ==
    /\ dpc = "send" /\ ~dParsed.ok /\ HAS_DESERIALIZED /\ cfg.tag = "Valid"

\* C14: a serializer iteration that finds HAS_DESERIALIZED set clears it and
\* leaves the raw text and its notifications alone; one that finds it clear
\* serializes the payload of the typed result, Valid or Invalid, and
\* publishes that text, notifying, exactly when it differs from the raw text.
C14_SerializerStepRule ==
    [][/\ (zpc = "load" /\ zpc' = "clear") => HAS_DESERIALIZED
       /\ (zpc = "load" /\ zpc' = "serialize") => ~HAS_DESERIALIZED
       /\ (zpc = "clear" /\ zpc' = "wait") =>
              /\ ~HAS_DESERIALIZED'
              /\ raw' = raw
              /\ saverChanged' = saverChanged
              /\ deserChanged' = deserChanged
       /\ (zpc = "serialize" /\ zpc' = "send") => zConfig' = to_string(cfg.v)
       /\ (zpc = "send" /\ zpc' = "wait") =>
              IF zConfig # raw
              THEN raw' = zConfig /\ saverChanged' /\ deserChanged'
              ELSE /\ raw' = raw
                   /\ saverChanged' = saverChanged
                   /\ deserChanged' = deserChanged]_vars

C14_Witness ==
    /\ zpc = "send" /\ cfg.tag = "Invalid" /\ cfg.v # DefaultT
    /\ zConfig = to_string(cfg.v) /\ zConfig # raw

\* C15: no store of true into a flag falls between the load and the store
\* of false of the activity that tests and clears that flag.
C15_AtomicTestAndClear ==
    [][/\ wpc = "clear" => ~(spc = "store" /\ spc' = "write")
       /\ zpc = "clear" => ~(dpc = "store" /\ dpc' = "send")]_vars

\* C16: with no external edit, whenever the engine is at rest the in-memory
\* payload is the initial payload with every application mutation applied.
C16_MutationsNotReverted ==
    (Quiescent /\ phase = "free" /\ nExt = 0) =>
        get(cfg) = get(probePre) + nMut

\* C17: whenever the engine is at rest both suppression flags are clear.
C17_NoStaleSuppression ==
    Quiescent => (~HAS_WRITTEN /\ ~HAS_DESERIALIZED)

C17_Witness ==
    /\ Quiescent /\ phase = "app" /\ probeWrites = 1
    /\ ~HAS_WRITTEN /\ ~HAS_DESERIALIZED

\* C18: as long as there has been neither an external edit nor an
\* application mutation, the raw text, the file and the typed result are
\* those of construction, file_saver and the deserializer have not been
\* notified, no event is queued, and the serializer never gets past its
\* test of HAS_DESERIALIZED.
C18_QuietStartup ==
    (phase = "free" /\ nExt = 0 /\ nMut = 0) =>
        /\ raw = disk /\ cfg = initial_value(disk) /\ cfg = probePre
        /\ events = <<>> /\ ~HAS_WRITTEN
        /\ wpc = "idle" /\ spc = "wait" /\ dpc = "wait"
        /\ ~saverChanged /\ ~deserChanged
        /\ zpc \in {"wait", "load", "clear"}

C18_Witness ==
    /\ Quiescent /\ phase = "free" /\ nExt = 0 /\ nMut = 0
    /\ ~HAS_DESERIALIZED /\ raw = disk /\ disk # to_string(get(cfg))

\* C19: once both stop methods have been called, no activity starts a new
\* step: the callback is not entered and no task begins an iteration.
C19_StopHaltsEverything ==
    [][phase = "stopped" =>
          /\ ~(wpc = "idle" /\ wpc' # "idle")
          /\ ~(spc = "wait" /\ spc' = "borrow")
          /\ ~(dpc = "wait" /\ dpc' = "parse")
          /\ ~(zpc = "wait" /\ zpc' = "load")]_vars

\* C11: the number of events file_watcher has ignored never exceeds the
\* number of disk writes file_saver has completed.
C11_IgnoredWithinWrites ==
    (storesAhead < AheadCap) =>
        storesAhead - (IF spc = "write" THEN 1 ELSE 0) >= 0

\* the part of C11 that holds: an ignored event clears the flag, an event met
\* with the flag clear is read, and the events ignored never exceed the
\* stores of true into HAS_WRITTEN
SingleShot ==
    [][/\ storesAhead' >= 0
       /\ (wpc = "clear" /\ wpc' = "idle") => ~HAS_WRITTEN'
       /\ (wpc = "idle" /\ wpc' # "idle" /\ ~HAS_WRITTEN) => wpc' = "read"]_vars
====
